---- MODULE Spec2Model ----
(***************************************************************************)
(* Two-pass assembler for the 16-bit basic computer (assembler.py).        *)
(* Strings are sequences of one-character strings, so that lower(),        *)
(* split(), endswith(), slicing, int() and '{:b}'.format() are computed    *)
(* the way the Python code computes them.  Dictionaries are functions.     *)
(* The characters are those of ASCII: a source file holding any other      *)
(* character is outside the model.                                         *)
(***************************************************************************)
EXTENDS Integers, Sequences, FiniteSets, TLC

\* Longest source file built from all line kinds, and longest body of a
\* source file that returns to origin 0.
MaxShort == 2

\* Number of assemble() calls made on one Assembler instance.
MaxRuns == 2

(***************************************************************************)
(* Python string and number primitives.                                    *)
(***************************************************************************)
\* The letters str.lower() changes, and what it changes them to.
UpperChars == <<"A","B","C","D","E","F","G","H","I","J","K","L","M",
                "N","O","P","Q","R","S","T","U","V","W","X","Y","Z">>
LowerChars == <<"a","b","c","d","e","f","g","h","i","j","k","l","m",
                "n","o","p","q","r","s","t","u","v","w","x","y","z">>
DigitChars == <<"0","1","2","3","4","5","6","7","8","9",
                "a","b","c","d","e","f">>

\* str.isspace() on an ASCII character: the characters split() and rstrip()
\* strip, U+0009-000D, U+001C-001F and U+0020.
IsSpace(c) ==
  c \in {"\t", "\n", "", "\f", "\r", "", "", "", "", " "}

\* str.lower() on one character.
LowerChar(c) ==
  IF \E k \in DOMAIN UpperChars : UpperChars[k] = c
    THEN LowerChars[CHOOSE k \in DOMAIN UpperChars : UpperChars[k] = c]
    ELSE c

\* str.lower()
Lower(s) == [k \in 1..Len(s) |-> LowerChar(s[k])]

\* str.rstrip()
RECURSIVE RStrip(_)
RStrip(s) ==
  IF s = <<>> THEN s
  ELSE IF IsSpace(s[Len(s)]) THEN RStrip(SubSeq(s, 1, Len(s) - 1))
  ELSE s

\* str.split() with no argument: runs of whitespace separate the tokens.
RECURSIVE SplitAcc(_, _, _, _)
SplitAcc(s, k, acc, cur) ==
  IF k > Len(s)
    THEN (IF cur = <<>> THEN acc ELSE Append(acc, cur))
  ELSE IF IsSpace(s[k])
    THEN SplitAcc(s, k + 1, IF cur = <<>> THEN acc ELSE Append(acc, cur), <<>>)
  ELSE SplitAcc(s, k + 1, acc, Append(cur, s[k]))

Split(s) == SplitAcc(s, 1, <<>>, <<>>)

\* str.endswith(c), str.startswith(c) for a one-character c
EndsWith(s, c) == s # <<>> /\ s[Len(s)] = c
StartsWith(s, c) == s # <<>> /\ s[1] = c

\* c in s
Contains(s, c) == \E k \in 1..Len(s) : s[k] = c

\* Value of one digit in the given base, -1 when it is not a digit of it.
DigitVal(c, base) ==
  LET lc == LowerChar(c) IN
  IF \E k \in 1..base : DigitChars[k] = lc
    THEN (CHOOSE k \in 1..base : DigitChars[k] = lc) - 1
    ELSE -1

\* The numeral without its sign.
Unsigned(s) == IF s # <<>> /\ s[1] \in {"+", "-"} THEN Tail(s) ELSE s

\* The numeral u starts with the prefix int() accepts for the base.
HasPrefix(u, base) ==
  base = 16 /\ Len(u) >= 2 /\ u[1] = "0" /\ u[2] \in {"x", "X"}

\* The digits and underscores of s: what follows the sign, the prefix and
\* the one underscore that may follow the prefix.
NumeralBody(s, base) ==
  LET u == Unsigned(s)
      b == IF HasPrefix(u, base) THEN SubSeq(u, 3, Len(u)) ELSE u
  IN IF HasPrefix(u, base) /\ b # <<>> /\ b[1] = "_" THEN Tail(b) ELSE b

\* int(s, base) accepts s: an optional sign, for base 16 an optional 0x,
\* then digits of the base with single underscores between them.
IsNumeral(s, base) ==
  LET b == NumeralBody(s, base) IN
  /\ b # <<>>
  /\ DigitVal(b[1], base) >= 0
  /\ DigitVal(b[Len(b)], base) >= 0
  /\ \A k \in 1..Len(b) :
       \/ DigitVal(b[k], base) >= 0
       \/ b[k] = "_" /\ k > 1 /\ b[k - 1] # "_"

\* The value of digits and underscores in the given base.
RECURSIVE DigitsValue(_, _)
DigitsValue(b, base) ==
  IF b = <<>> THEN 0
  ELSE IF b[Len(b)] = "_" THEN DigitsValue(SubSeq(b, 1, Len(b) - 1), base)
  ELSE DigitsValue(SubSeq(b, 1, Len(b) - 1), base) * base
         + DigitVal(b[Len(b)], base)

\* int(s, base) of a numeral
ParseInt(s, base) ==
  LET v == DigitsValue(NumeralBody(s, base), base) IN
  IF s[1] = "-" THEN 0 - v ELSE v

\* Digits of n >= 0 in the given base, most significant first.
RECURSIVE Digits(_, _)
Digits(n, base) ==
  IF n < base THEN << DigitChars[n + 1] >>
  ELSE Append(Digits(n \div base, base), DigitChars[(n % base) + 1])

\* str(n) for base 10, '{:b}'.format(n) for base 2
FormatInt(n, base) ==
  IF n < 0 THEN <<"-">> \o Digits(0 - n, base) ELSE Digits(n, base)

\* str(n)
Str(n) == FormatInt(n, 10)

\* str.zfill(width): the zeros go after a leading sign.
RECURSIVE ZFill(_, _)
ZFill(s, width) ==
  IF Len(s) >= width THEN s
  ELSE IF s # <<>> /\ s[1] \in {"+", "-"}
    THEN ZFill(<<s[1], "0">> \o Tail(s), width)
  ELSE ZFill(<<"0">> \o s, width)

(***************************************************************************)
(* Inputs: the lines of the .asm file and the three instruction tables.    *)
(***************************************************************************)
\* origin directive, operand 0
LineOrg0 == <<"O","R","G"," ","0","\n">>

\* memory-reference instruction with operand label x
LineLda == <<"L","D","A"," ","X","\n">>

\* register-reference instruction followed by a comment
LineCle == <<"C","L","E"," ","/","c","\n">>

\* labelled literal-data line
LineXHex == <<"X",","," ","H","E","X"," ","1","F","\n">>

\* end directive
LineEnd == <<"E","N","D","\n">>

\* origin directive, operand 0x100
LineOrg100 == <<"O","R","G"," ","1","0","0","\n">>

\* indirect form of LDA
LineLdai == <<"L","D","A","I"," ","X","\n">>

\* input-output instruction
LineInp == <<"I","N","P","\n">>

\* labelled memory-reference instruction
LineXLda == <<"X",","," ","L","D","A"," ","X","\n">>

\* mnemonic of no instruction table
LineFoo == <<"F","O","O","\n">>

\* comment-only line
LineComment == <<"/","c","\n">>

\* decimal-literal directive
LineDec == <<"D","E","C","\f","5","\n">>

AllLines == {LineOrg0, LineLda, LineCle, LineXHex, LineEnd, LineOrg100,
             LineLdai, LineInp, LineXLda, LineFoo, LineComment, LineDec}

\* The lines of the files that return to origin 0.
BodyLines == {LineLda, LineCle, LineXHex, LineInp}

SeqsUpTo(S, n) == UNION {[1..k -> S] : k \in 0..n}

\* Files whose second line sets the origin back to 0, so that the lines
\* after it are assigned the locations of the lines before it.
OverlapFiles ==
  {<<a, LineOrg0>> \o b \o <<LineEnd>> :
     a \in BodyLines, b \in SeqsUpTo(BodyLines, MaxShort)}

\* The contents the file at the first path may have.
Files == SeqsUpTo(AllLines, MaxShort) \cup OverlapFiles

\* The file at the second path.
OtherFile == <<LineInp, LineEnd>>

\* The paths read_code and assemble are called with; the last one has no
\* suffix the code accepts.
PathP == <<"p",".","a","s","m">>
PathQ == <<"d","/","q",".","S">>
PathTxt == <<"p",".","t","x","t">>
Paths == {PathP, PathQ, PathTxt}

\* The inp argument of assemble(): '' or a path.
NoPath == <<>>

\* f.readlines() of the file at path, the first path holding file.
FileAt(path, file) == IF path = PathQ THEN OtherFile ELSE file

\* Tokens the code compares against.
TokOrg == <<"o","r","g">>
TokEnd == <<"e","n","d">>
TokDec == <<"d","e","c">>
TokHex == <<"h","e","x">>

\* The tables __load_table returns (keys and encodings lower-cased); the
\* constructor sets them and nothing assigns them afterwards.
mri_table == (<<"l","d","a">> :> <<"0","1","0">>) @@ (<<"l","d","a","i">> :> <<"0","1","0">>)
rri_table == (<<"c","l","e">> :> <<"0","1","1","1","1","0","0","0","0","0","0","0","0","0","0","0">>)
ioi_table == (<<"i","n","p">> :> <<"1","1","1","1","1","0","0","0","0","0","0","0","0","0","0","0">>)

EmptyDict == <<>>

(***************************************************************************)
(* The Assembler's private helpers.                                        *)
(***************************************************************************)
\* str.endswith(suffix)
EndsWithStr(s, suffix) ==
  /\ Len(s) >= Len(suffix)
  /\ SubSeq(s, Len(s) - Len(suffix) + 1, Len(s)) = suffix

\* path.endswith('.asm') or path.endswith('.S')
HasAsmSuffix(path) ==
  \/ EndsWithStr(path, <<".","a","s","m">>)
  \/ EndsWithStr(path, <<".","S">>)

\* path.split('/')[-1]
RECURSIVE Basename(_)
Basename(path) ==
  IF ~Contains(path, "/") THEN path
  ELSE Basename(Tail(path))

\* read_code: each file line is right-stripped, lower-cased and split.
ReadLines(f) == [k \in 1..Len(f) |-> Split(Lower(RStrip(f[k])))]

\* __islabel
IsLabel(string) == EndsWith(string, ",")

\* __rm_comments on one line: cut the line at its first token starting with /.
RmCommentsLine(line) ==
  IF \E j \in 1..Len(line) : StartsWith(line[j], "/")
    THEN SubSeq(line, 1,
                (CHOOSE j \in 1..Len(line) :
                   /\ StartsWith(line[j], "/")
                   /\ \A h \in 1..(j - 1) : ~StartsWith(line[h], "/")) - 1)
    ELSE line

\* __rm_comments
RmComments(a) == [k \in 1..Len(a) |-> RmCommentsLine(a[k])]

\* __format2bin for the two formats the passes use; num is a numeral.
Format2bin(num, numformat, format_bits) ==
  IF numformat = TokDec
    THEN ZFill(FormatInt(ParseInt(num, 10), 2), format_bits)
    ELSE ZFill(FormatInt(ParseInt(num, 16), 2), format_bits)

\* __is_pseudo_instruction
IsPseudoInstruction(opcode) == Lower(opcode) \in {TokOrg, TokEnd, TokDec}

\* The key under which both passes file a location.
LocationKey(loc) == Format2bin(Str(loc), TokDec, 12)

\* d[key] = value
DictSet(d, key, value) ==
  [k \in DOMAIN d \cup {key} |-> IF k = key THEN value ELSE d[k]]

(***************************************************************************)
(* Pass one and pass two, one source line at a time.                       *)
(***************************************************************************)
\* current_location = 0 at the start of __first_pass
FirstPassStart == 0

\* current_location = 0 at the start of __second_pass
SecondPassStart == 0

\* Faulty org: the operand is read as a decimal number.
OrgLocationDecimal(operand) == ParseInt(operand, 10)

\* int(line[1], 16) of an org line
OrgLocation(operand) == ParseInt(operand, 16)

\* current_location += 1 at the bottom of the loop of __first_pass
FirstPassAdvance(opcode, loc) == loc + 1

\* Faulty pass two: the increment sits in the branch of the instructions, so
\* a pseudo instruction that falls through does not advance the counter.
SecondPassAdvanceSkipPseudo(opcode, loc) ==
  IF IsPseudoInstruction(opcode) THEN loc ELSE loc + 1

\* current_location += 1 at the bottom of the loop of __second_pass
SecondPassAdvance(opcode, loc) == loc + 1

\* label = opcode[:-1]
LabelOf(opcode) == SubSeq(opcode, 1, Len(opcode) - 1)

\* Faulty label record: the location is taken after the increment.
RecordLabelAfter(labels, label, loc) == DictSet(labels, label, Str(loc + 1))

\* self.__label_addresses[label] = str(current_location)
RecordLabel(labels, label, loc) == DictSet(labels, label, Str(loc))

\* The body of the loop of __first_pass for one non-empty line.  ctl is
\* "next" (fall through to the increment), "continue", "break" or the
\* exception the line raises.
FirstPassLine(line, loc, ast, labels) ==
  LET opcode == line[1]
      key == LocationKey(loc)
      stop(c) == [ctl |-> c, ast |-> ast, labels |-> labels, loc |-> loc]
  IN
  IF IsLabel(opcode)
    THEN IF Len(line) < 2 THEN stop("IndexError")
         ELSE IF line[2] # TokHex
           THEN [ctl |-> "next",
                 ast |-> DictSet(ast, key, line[2]),
                 labels |-> RecordLabel(labels, LabelOf(opcode), loc),
                 loc |-> FirstPassAdvance(opcode, loc)]
         ELSE IF Len(line) < 3 THEN stop("IndexError")
         ELSE IF ~IsNumeral(line[3], 16) THEN stop("ValueError")
         ELSE [ctl |-> "next",
               ast |-> DictSet(ast, key, Format2bin(line[3], TokHex, 16)),
               labels |-> RecordLabel(labels, LabelOf(opcode), loc),
               loc |-> FirstPassAdvance(opcode, loc)]
  ELSE IF opcode = TokOrg
    THEN IF Len(line) < 2 THEN stop("IndexError")
         ELSE IF ~IsNumeral(line[2], 16) THEN stop("ValueError")
         ELSE [ctl |-> "continue", ast |-> ast, labels |-> labels,
               loc |-> OrgLocation(line[2])]
  ELSE IF opcode = TokEnd
    THEN stop("break")
  ELSE [ctl |-> "next",
        ast |-> DictSet(ast, key, line[1]),
        labels |-> labels,
        loc |-> FirstPassAdvance(opcode, loc)]

\* The two ifs of the sweep that opens __second_pass, for one cell.
SweepValue(value, rri, ioi) ==
  IF value \in DOMAIN ioi THEN ioi[value]
  ELSE IF value \in DOMAIN rri THEN rri[value]
  ELSE value

\* The sweep over all cells of the address symbol table.
Sweep(ast, rri, ioi) == [k \in DOMAIN ast |-> SweepValue(ast[k], rri, ioi)]

\* if 'I' in opcode: directness = '1' else '0'
Directness(opcode) == IF Contains(opcode, "I") THEN <<"1">> ELSE <<"0">>

\* binary_address: the 12-bit form of the operand label's location
BinaryAddress(labels, operand) == Format2bin(labels[operand], TokDec, 12)

\* binary_instruction = directness + operation_code + binary_address
BinaryInstruction(opcode, operand, mri, labels) ==
  Directness(opcode) \o mri[Lower(opcode)] \o BinaryAddress(labels, operand)

\* The body of the loop of __second_pass for one non-empty line.  word is
\* the instruction word the line stored, <<>> when it stored none.
SecondPassLine(line, loc, ast, labels, mri) ==
  LET opcode == line[1]
      stop(c) == [ctl |-> c, ast |-> ast, loc |-> loc, word |-> <<>>]
  IN
  IF IsPseudoInstruction(opcode)
    THEN IF Lower(opcode) = TokOrg
           THEN IF Len(line) < 2 THEN stop("IndexError")
                ELSE IF ~IsNumeral(line[2], 16) THEN stop("ValueError")
                ELSE [ctl |-> "continue", ast |-> ast,
                      loc |-> OrgLocation(line[2]), word |-> <<>>]
         ELSE IF Lower(opcode) = TokEnd
           THEN stop("break")
         ELSE [ctl |-> "next", ast |-> ast,
               loc |-> SecondPassAdvance(opcode, loc), word |-> <<>>]
  ELSE IF Lower(opcode) \in DOMAIN mri
    THEN IF Len(line) < 2 THEN stop("IndexError")
         ELSE IF line[2] \notin DOMAIN labels THEN stop("KeyError")
         ELSE LET w == BinaryInstruction(opcode, line[2], mri, labels) IN
              [ctl |-> "next",
               ast |-> DictSet(ast, LocationKey(loc), w),
               loc |-> SecondPassAdvance(opcode, loc),
               word |-> w]
  ELSE [ctl |-> "next", ast |-> ast,
        loc |-> SecondPassAdvance(opcode, loc), word |-> <<>>]

\* The loop of __first_pass from line k on; st is the result of the lines
\* before it.
RECURSIVE FirstPassRun(_, _, _)
FirstPassRun(a, k, st) ==
  IF k > Len(a) THEN st
  ELSE IF a[k] = <<>> THEN FirstPassRun(a, k + 1, st)
  ELSE LET r == FirstPassLine(a[k], st.loc, st.ast, st.labels) IN
       IF r.ctl \in {"next", "continue"} THEN FirstPassRun(a, k + 1, r)
       ELSE r

\* The loop of __second_pass from line k on.
RECURSIVE SecondPassRun(_, _, _, _)
SecondPassRun(a, k, st, labels) ==
  IF k > Len(a) THEN st
  ELSE IF a[k] = <<>> THEN SecondPassRun(a, k + 1, st, labels)
  ELSE LET r == SecondPassLine(a[k], st.loc, st.ast, labels, mri_table) IN
       IF r.ctl \in {"next", "continue"}
         THEN SecondPassRun(a, k + 1, r, labels)
         ELSE r

\* assemble(inp) on an instance that has run nothing yet and holds the
\* lines a, the file at the first path being f: how the call ends and, when
\* it returns, the mapping it returns.
FreshAssemble(a, inp, f) ==
  LET loaded == RmComments(IF a = <<>> THEN ReadLines(FileAt(inp, f)) ELSE a)
      one == FirstPassRun(loaded, 1,
                          [ctl |-> "next", ast |-> EmptyDict,
                           labels |-> EmptyDict, loc |-> FirstPassStart])
      two == SecondPassRun(loaded, 1,
                           [ctl |-> "next",
                            ast |-> Sweep(one.ast, rri_table, ioi_table),
                            loc |-> SecondPassStart, word |-> <<>>],
                           one.labels)
  IN IF a = <<>> /\ inp = NoPath
       THEN [ctl |-> "AssertionError", bin |-> EmptyDict]
     ELSE IF inp # NoPath /\ ~HasAsmSuffix(inp)
       THEN [ctl |-> "AssertionError", bin |-> EmptyDict]
     ELSE IF one.ctl \in {"IndexError", "ValueError"}
       THEN [ctl |-> one.ctl, bin |-> EmptyDict]
     ELSE IF two.ctl \in {"IndexError", "ValueError", "KeyError"}
       THEN [ctl |-> two.ctl, bin |-> EmptyDict]
     ELSE [ctl |-> "done",
           bin |-> IF two.ctl = "break" THEN two.ast ELSE EmptyDict]

(***************************************************************************)
(* The Assembler object and the calls made on it.                          *)
(***************************************************************************)
VARIABLES
  file,                  \* the lines of the file at the first path
  has_asm,               \* the attribute self.__asm exists
  asmfile,               \* self.__asmfile, <<>> while it does not exist
  asm,                   \* self.__asm
  address_symbol_table,  \* self.__address_symbol_table
  label_addresses,       \* self.__label_addresses
  bin,                   \* self.__bin while it is its own dict
  bin_is_ast,            \* self.__bin is self.__address_symbol_table
  pc,                    \* where the current call stands
  idx,                   \* position of "for line in self.__asm"
  current_location,      \* current_location of the running pass
  runs,                  \* assemble() calls made
  err,                   \* the exception that ended the last call
  lc1,                   \* current_location of pass one on reaching each line
  lc2,                   \* current_location of pass two on reaching each line
  enc2                   \* the word pass two stored for each line

vars == <<file, has_asm, asmfile, asm, address_symbol_table, label_addresses,
          bin, bin_is_ast, pc, idx, current_location, runs, err,
          lc1, lc2, enc2>>

\* The value of self.__bin
Bin == IF bin_is_ast THEN address_symbol_table ELSE bin

\* No call is running: after the constructor or read_code ("idle"), after
\* assemble() returned ("done"), after a call raised ("error").
Idle == {"idle", "done", "error"}

\* Assembler(mripath=..., rripath=..., ioipath=...)
Init ==
  /\ file \in Files
  /\ has_asm = FALSE
  /\ asmfile = <<>>
  /\ asm = <<>>
  /\ address_symbol_table = EmptyDict
  /\ label_addresses = EmptyDict
  /\ bin = EmptyDict
  /\ bin_is_ast = FALSE
  /\ pc = "idle"
  /\ idx = 0
  /\ current_location = 0
  /\ runs = 0
  /\ err = "none"
  /\ lc1 = <<>>
  /\ lc2 = <<>>
  /\ enc2 = <<>>

\* The per-line records of a call that runs no pass.
NoRecords ==
  /\ idx' = 0
  /\ current_location' = 0
  /\ lc1' = <<>>
  /\ lc2' = <<>>
  /\ enc2' = <<>>

\* read_code(path)
ReadCode(path) ==
  /\ pc \in Idle
  /\ IF HasAsmSuffix(path)
       THEN /\ asmfile' = Basename(path)
            /\ asm' = ReadLines(FileAt(path, file))
            /\ has_asm' = TRUE
            /\ pc' = "idle"
            /\ err' = "none"
       ELSE /\ pc' = "error"
            /\ err' = "AssertionError"
            /\ UNCHANGED <<asmfile, asm, has_asm>>
  /\ NoRecords
  /\ UNCHANGED <<file, address_symbol_table, label_addresses, bin,
                 bin_is_ast, runs>>

\* What the head of assemble(inp) raises, "none" when it raises nothing.
AssembleRaises(inp) ==
  IF ~has_asm THEN "AttributeError"
  ELSE IF asm = <<>> /\ inp = NoPath THEN "AssertionError"
  ELSE IF inp # NoPath /\ ~HasAsmSuffix(inp) THEN "AssertionError"
  ELSE "none"

\* assemble(inp): the assertions, the load of inp when no code is loaded,
\* __rm_comments and the start of __first_pass.
Assemble(inp) ==
  /\ pc \in Idle
  /\ runs < MaxRuns
  /\ runs' = runs + 1
  /\ IF AssembleRaises(inp) # "none"
       THEN /\ pc' = "error"
            /\ err' = AssembleRaises(inp)
            /\ NoRecords
            /\ UNCHANGED <<asmfile, asm, has_asm>>
       ELSE LET loaded == IF asm = <<>>
                            THEN ReadLines(FileAt(inp, file)) ELSE asm
            IN
            /\ asmfile' = IF asm = <<>> THEN Basename(inp) ELSE asmfile
            /\ asm' = RmComments(loaded)
            /\ has_asm' = TRUE
            /\ pc' = IF loaded = <<>> THEN "sweep" ELSE "first"
            /\ err' = "none"
            /\ idx' = 1
            /\ current_location' = FirstPassStart
            /\ lc1' = [k \in 1..Len(loaded) |-> <<>>]
            /\ lc2' = [k \in 1..Len(loaded) |-> <<>>]
            /\ enc2' = [k \in 1..Len(loaded) |-> <<>>]
  /\ UNCHANGED <<file, address_symbol_table, label_addresses, bin,
                 bin_is_ast>>

\* One iteration of the loop of __first_pass.
FirstPassStep ==
  /\ pc = "first"
  /\ LET line == asm[idx]
         r == IF line = <<>>
                THEN [ctl |-> "continue", ast |-> address_symbol_table,
                      labels |-> label_addresses, loc |-> current_location]
                ELSE FirstPassLine(line, current_location,
                                   address_symbol_table, label_addresses)
     IN
     /\ address_symbol_table' = r.ast
     /\ label_addresses' = r.labels
     /\ current_location' = r.loc
     /\ lc1' = IF line = <<>> THEN lc1
               ELSE [lc1 EXCEPT ![idx] = <<current_location>>]
     /\ IF r.ctl \in {"IndexError", "ValueError"}
          THEN pc' = "error" /\ err' = r.ctl /\ idx' = idx
          ELSE IF r.ctl = "break" \/ idx = Len(asm)
            THEN pc' = "sweep" /\ err' = err /\ idx' = idx
            ELSE pc' = "first" /\ err' = err /\ idx' = idx + 1
  /\ UNCHANGED <<file, has_asm, asmfile, asm, bin, bin_is_ast, runs,
                 lc2, enc2>>

\* The sweep that opens __second_pass; with no line to loop over, the
\* return of assemble().
SecondPassSweep ==
  /\ pc = "sweep"
  /\ address_symbol_table' = Sweep(address_symbol_table, rri_table, ioi_table)
  /\ current_location' = SecondPassStart
  /\ idx' = 1
  /\ pc' = IF asm = <<>> THEN "done" ELSE "second"
  /\ UNCHANGED <<file, has_asm, asmfile, asm, label_addresses, bin,
                 bin_is_ast, runs, err, lc1, lc2, enc2>>

\* One iteration of the loop of __second_pass; when the loop ends, the
\* return of assemble().
SecondPassStep ==
  /\ pc = "second"
  /\ LET line == asm[idx]
         r == IF line = <<>>
                THEN [ctl |-> "continue", ast |-> address_symbol_table,
                      loc |-> current_location, word |-> <<>>]
                ELSE SecondPassLine(line, current_location,
                                    address_symbol_table, label_addresses,
                                    mri_table)
     IN
     /\ address_symbol_table' = r.ast
     /\ current_location' = r.loc
     /\ lc2' = IF line = <<>> THEN lc2
               ELSE [lc2 EXCEPT ![idx] = <<current_location>>]
     /\ enc2' = [enc2 EXCEPT ![idx] = r.word]
     /\ bin_is_ast' = (bin_is_ast \/ r.ctl = "break")
     /\ IF r.ctl \in {"IndexError", "ValueError", "KeyError"}
          THEN pc' = "error" /\ err' = r.ctl /\ idx' = idx
          ELSE IF r.ctl = "break" \/ idx = Len(asm)
            THEN pc' = "done" /\ err' = err /\ idx' = idx
            ELSE pc' = "second" /\ err' = err /\ idx' = idx + 1
  /\ UNCHANGED <<file, has_asm, asmfile, asm, label_addresses, bin, runs,
                 lc1>>

Next ==
  \/ \E path \in Paths : ReadCode(path)
  \/ \E inp \in Paths \cup {NoPath} : Assemble(inp)
  \/ FirstPassStep
  \/ SecondPassSweep
  \/ SecondPassStep

Spec == Init /\ [][Next]_vars

(***************************************************************************)
(* Vocabulary of the properties, written from the source text alone.       *)
(***************************************************************************)
RECURSIVE Pow(_, _)
Pow(b, e) == IF e = 0 THEN 1 ELSE b * Pow(b, e - 1)

\* The w-bit zero-padded binary form of n.
Bits(n, w) ==
  [k \in 1..w |-> IF (n \div Pow(2, w - k)) % 2 = 1 THEN "1" ELSE "0"]

\* The number a string of hexadecimal digits denotes.
RECURSIVE HexSum(_, _)
HexSum(s, k) ==
  IF k > Len(s) THEN 0
  ELSE DigitVal(s[k], 16) * Pow(16, Len(s) - k) + HexSum(s, k + 1)

HexNumber(s) == HexSum(s, 1)

IsWord16(v) == Len(v) = 16 /\ \A k \in 1..16 : v[k] \in {"0", "1"}

Lines == 1..Len(asm)
NonEmpty(i) == asm[i] # <<>>
IsOrgLine(i) == NonEmpty(i) /\ asm[i][1] = TokOrg
IsEndLine(i) == NonEmpty(i) /\ asm[i][1] = TokEnd
IsLabelled(i) == NonEmpty(i) /\ asm[i][1][Len(asm[i][1])] = ","

\* Index of the end directive, Len(asm) + 1 when there is none.
EndIndex ==
  IF \E i \in Lines : IsEndLine(i)
    THEN CHOOSE i \in Lines : IsEndLine(i) /\ \A j \in 1..(i - 1) : ~IsEndLine(j)
    ELSE Len(asm) + 1

HasEnd == EndIndex <= Len(asm)

\* Line i is given a location by pass one.
Assigns(i) == NonEmpty(i) /\ i < EndIndex /\ ~IsOrgLine(i)

\* Line i is the last line in source order assigned to its location.
LastAssigned(i) ==
  \A j \in Lines : (j > i /\ Assigns(j)) => lc1[j] # lc1[i]

\* Pass one, pass two reached line i in the current call, and the value
\* their counter had then.
Reached1(i) == lc1[i] # <<>>
Reached2(i) == lc2[i] # <<>>
Loc1(i) == lc1[i][1]
Loc2(i) == lc2[i][1]

\* Line i is an unlabelled memory-reference line "m x" before end.
IsMriLine(i) ==
  /\ NonEmpty(i) /\ i < EndIndex
  /\ asm[i][1] \in DOMAIN mri_table
  /\ Len(asm[i]) >= 2

\* Lines before end that define label x.
DefLines(x) ==
  {j \in Lines : j < EndIndex /\ IsLabelled(j) /\ asm[j][1] = x \o <<",">>}

\* The line whose definition of x stands: the last one.
DefLine(x) == CHOOSE j \in DefLines(x) : \A h \in DefLines(x) : h <= j

Mnemonics == DOMAIN mri_table \cup DOMAIN rri_table \cup DOMAIN ioi_table

\* Pass two is past line i in the current call.
Processed2(i) == Reached2(i) /\ ~(pc = "error" /\ idx = i)

\* Pass two has just executed line i.
JustProcessed2(i) ==
  \/ pc = "second" /\ idx = i + 1
  \/ pc = "done" /\ idx = i /\ ~IsEndLine(i)

\* The mapping assemble() returns, in the state in which it returns.
Returned == Bin

\* assemble() has been entered: the comments are gone and the per-line
\* records exist.
Started == asm # <<>> /\ Len(lc1) = Len(asm)

(***************************************************************************)
(* C1.  The mapping assemble returns has an entry for every location pass  *)
(* one assigned before the end directive or, without one, before the end   *)
(* of input.                                                               *)
(***************************************************************************)
C1_ReturnedCoversAssigned ==
  (Started /\ pc = "done") =>
    \A i \in Lines : Assigns(i) => Bits(Loc1(i), 12) \in DOMAIN Returned

\* Every mnemonic before end belongs to an instruction table.
AllMnemonicsKnown ==
  \A i \in Lines : (NonEmpty(i) /\ i < EndIndex /\ ~IsOrgLine(i)) =>
    IF IsLabelled(i)
      THEN Len(asm[i]) >= 2 /\ asm[i][2] \in Mnemonics \cup {TokHex}
      ELSE asm[i][1] \in Mnemonics

\* Every memory-reference operand before end is a defined label.
AllOperandsDefined ==
  \A i \in Lines : IsMriLine(i) => DefLines(asm[i][2]) # {}

(***************************************************************************)
(* C2.  When pass two completes at the end directive of a program whose    *)
(* mnemonics all belong to the instruction tables and whose operand labels *)
(* are all defined, every assigned location holds a 16-bit binary word.    *)
(***************************************************************************)
C2_AllCellsEncoded ==
  (Started /\ pc = "done" /\ HasEnd /\ AllMnemonicsKnown /\ AllOperandsDefined) =>
    \A i \in Lines : Assigns(i) =>
      IsWord16(address_symbol_table[Bits(Loc1(i), 12)])

\* m is a memory-reference mnemonic with the indirect marker appended.
IsIndirectForm(m) ==
  /\ Len(m) > 1
  /\ m[Len(m)] = "i"
  /\ SubSeq(m, 1, Len(m) - 1) \in DOMAIN mri_table

(***************************************************************************)
(* C3.  For an unlabelled memory-reference line the first bit of the word  *)
(* pass two stores is 1 when the mnemonic is the indirect form (the        *)
(* marker letter appended to a memory-reference mnemonic) and 0 otherwise, *)
(* and the indirect form's word is 1, the direct form's opcode, and the    *)
(* address.                                                                *)
(***************************************************************************)
C3_ModeBit ==
  Started =>
    \A i \in Lines : (IsMriLine(i) /\ enc2[i] # <<>>) =>
      IF IsIndirectForm(asm[i][1])
        THEN enc2[i] = <<"1">>
                         \o mri_table[SubSeq(asm[i][1], 1, Len(asm[i][1]) - 1)]
                         \o Bits(Loc1(DefLine(asm[i][2])), 12)
        ELSE enc2[i][1] = "0"

(***************************************************************************)
(* C4.  For every unlabelled memory-reference line m x before end whose    *)
(* label x is defined on a line before end, earlier or later than the      *)
(* reference, pass two does not fail on the line and stores at the line's  *)
(* location a word whose bits 2-4 are the opcode of m and whose last 12    *)
(* bits are the binary form of the location at which x was defined (the    *)
(* last definition when x is defined more than once).                      *)
(***************************************************************************)
C4_LabelResolved ==
  Started =>
    \A i \in Lines :
      (IsMriLine(i) /\ DefLines(asm[i][2]) # {} /\ Reached2(i)) =>
        /\ Processed2(i)
        /\ Len(enc2[i]) = 16
        /\ SubSeq(enc2[i], 2, 4) = mri_table[asm[i][1]]
        /\ SubSeq(enc2[i], 5, 16) = Bits(Loc1(DefLine(asm[i][2])), 12)
        /\ JustProcessed2(i) =>
             address_symbol_table[Bits(Loc1(i), 12)] = enc2[i]

\* A forward reference to a label defined away from location 0 was encoded.
C4_Witness ==
  /\ Started
  /\ \E i \in Lines :
       /\ IsMriLine(i) /\ enc2[i] # <<>>
       /\ DefLines(asm[i][2]) # {}
       /\ DefLine(asm[i][2]) > i
       /\ Loc1(DefLine(asm[i][2])) > 0

(***************************************************************************)
(* C5.  In a program terminated by end, an unlabelled line whose single    *)
(* mnemonic is a register-reference or I/O mnemonic, and which is the last *)
(* line assigned to its location, has exactly the table encoding at that   *)
(* location in the final mapping.                                          *)
(***************************************************************************)
C5_BareEncoding ==
  (Started /\ pc = "done" /\ HasEnd) =>
    \A i \in Lines :
      ( /\ Assigns(i) /\ Len(asm[i]) = 1
        /\ asm[i][1] \in DOMAIN rri_table \cup DOMAIN ioi_table
        /\ LastAssigned(i) ) =>
        /\ Bits(Loc1(i), 12) \in DOMAIN Returned
        /\ Returned[Bits(Loc1(i), 12)] =
             (IF asm[i][1] \in DOMAIN rri_table
                THEN rri_table[asm[i][1]] ELSE ioi_table[asm[i][1]])

\* Line i is a labelled literal-data line before end.
IsHexLine(i) ==
  /\ IsLabelled(i) /\ i < EndIndex
  /\ Len(asm[i]) >= 3 /\ asm[i][2] = TokHex

(***************************************************************************)
(* C6.  A cell that pass one leaves holding the word of a labelled hex     *)
(* line is unchanged by pass two: the final mapping at that location is   *)
(* the 16-bit binary form of the operand, whatever else the program holds. *)
(* Stated for the programs that have an end directive.                     *)
(***************************************************************************)
C6_HexCellTerminal ==
  (Started /\ pc = "done" /\ HasEnd) =>
    \A i \in Lines : (IsHexLine(i) /\ LastAssigned(i)) =>
      /\ Bits(Loc1(i), 12) \in DOMAIN Returned
      /\ Returned[Bits(Loc1(i), 12)] = Bits(HexNumber(asm[i][3]), 16)

\* The org lines above line i.
OrgsBefore(i) == {j \in 1..(i - 1) : IsOrgLine(j)}

LastOrgBefore(i) == CHOOSE j \in OrgsBefore(i) : \A h \in OrgsBefore(i) : h <= j

\* The location the source text gives line i.
ExpectedLocation(i) ==
  LET from == IF OrgsBefore(i) = {} THEN 0 ELSE LastOrgBefore(i)
      base == IF from = 0 THEN 0 ELSE HexNumber(asm[from][2])
  IN base + Cardinality({k \in (from + 1)..(i - 1) : NonEmpty(k) /\ ~IsOrgLine(k)})

\* The location pass one assigned to each line it reached.
C7_LocationsState ==
  Started =>
    \A i \in Lines :
      (Reached1(i) /\ ~IsOrgLine(i) /\ ~IsEndLine(i)) =>
        Loc1(i) = ExpectedLocation(i)

\* What pass one does on an org line.
C7_OrgStep ==
  (pc = "first" /\ Started /\ IsOrgLine(idx)) =>
    /\ current_location' = HexNumber(asm[idx][2])
    /\ address_symbol_table' = address_symbol_table
    /\ label_addresses' = label_addresses

(***************************************************************************)
(* C7.  In pass one the location of each non-empty line before end that is *)
(* not an org or end directive is the operand of the most recent preceding *)
(* org line (0 without one) plus the number of non-empty non-org lines     *)
(* scanned since; an org line sets the counter to its operand exactly and  *)
(* writes no table entry.                                                  *)
(***************************************************************************)
C7_Locations == []C7_LocationsState /\ [][C7_OrgStep]_vars

\* Pass one gave the line after "org 100" its location and advanced.
C7_Witness ==
  /\ Started
  /\ current_location = 257
  /\ \E i \in Lines :
       /\ lc1[i] = <<256>> /\ ~IsOrgLine(i)
       /\ OrgsBefore(i) # {}

(***************************************************************************)
(* C8.  A run of assemble on loaded lines returns the mapping that a run   *)
(* on the same lines and tables returns on an instance that has run        *)
(* nothing before: the tables earlier runs left behind do not show in the  *)
(* output.                                                                 *)
(***************************************************************************)
C8_SameAsFresh ==
  (pc = "done" /\ asm # <<>>) =>
    FreshAssemble(asm, NoPath, file) = [ctl |-> "done", bin |-> Returned]

\* The bad lines: an undefined operand label or an unknown mnemonic.
IsDirective(tok) == tok \in {TokOrg, TokEnd, TokDec, TokHex}

UnresolvedLine(i) ==
  /\ NonEmpty(i) /\ i < EndIndex
  /\ \/ IsMriLine(i) /\ DefLines(asm[i][2]) = {}
     \/ ~IsLabelled(i) /\ ~IsDirective(asm[i][1]) /\ asm[i][1] \notin Mnemonics
     \/ /\ IsLabelled(i) /\ Len(asm[i]) >= 2
        /\ ~IsDirective(asm[i][2]) /\ asm[i][2] \notin Mnemonics

(***************************************************************************)
(* C9.  An unresolved symbol is fatal: assemble never completes at the end *)
(* directive of a program that has, before end, a memory-reference operand *)
(* label that is not defined or a mnemonic of no instruction table.        *)
(***************************************************************************)
C9_UnresolvedIsFatal ==
  (Started /\ pc = "done" /\ HasEnd) => \A i \in Lines : ~UnresolvedLine(i)

(***************************************************************************)
(* C10.  Pass two's location counter on reaching a line equals the value   *)
(* pass one's counter had on reaching the same line, for every kind of     *)
(* line up to and including end.                                           *)
(***************************************************************************)
C10_CountersAgree ==
  Started => \A i \in Lines : Reached2(i) => lc2[i] = lc1[i]

\* Pass two reached a labelled line that follows a dec line.
C10_Witness ==
  /\ Started
  /\ \E i, k \in Lines :
       /\ i < k
       /\ NonEmpty(i) /\ asm[i][1] = TokDec
       /\ IsLabelled(k)
       /\ Reached2(k) /\ Loc2(k) >= 1

====
